---- MODULE Spec2Model ----
EXTENDS Integers, Sequences, FiniteSets, TLC

\* ------------------------------------------------------------------
\* Bounds of the model
\* ------------------------------------------------------------------
MaxInc == 3
MaxComp == 2
MaxBlobs == 2

\* ------------------------------------------------------------------
\* Hash values.  Every hash is an injective term, so two hash values are
\* equal exactly when their preimages are (sha256d is collision free).
\* ------------------------------------------------------------------

\* A txid as a 32-byte hash value (Txid::from_slice of the 32 raw bytes).
TxHash(t) == <<"txid", t>>

\* sha256d of the concatenation of two 32-byte hashes (merkle node).
MerkleNode(a, b) == <<"node", a, b>>

\* Transactions of the universe.  Txid 1 does not start with 0x0000;
\* the others do.  The kind says what parse_transaction and the signature
\* check yield on the transaction: no envelope, a signature that does not
\* verify, a public key or signature that does not decode, a valid
\* signature, or a valid signature over a body that brotli cannot
\* decompress: a valid but unfinished stream (7) or bytes brotli rejects
\* as invalid data (8); or a transaction without inputs (9), a txid
\* ground to the 0x0000 prefix.
Txids == 1..4
AllTxids == 1..9
TxKind(t) ==
    CASE t = 1 -> "plain"
      [] t = 2 -> "valid"
      [] t = 3 -> "valid"
      [] t = 4 -> "noenv"
      [] t = 5 -> "badsig"
      [] t = 6 -> "badkey"
      [] t = 7 -> "baddecomp"
      [] t = 8 -> "badbrotli"
      [] t = 9 -> "noinput"

\* tx_hash[0..2] == [0, 0]
IsPowTagged(t) == t # 1

\* Fields of a parsed inscription of transaction t.
Body(t) == <<"body", t>>
PublicKey(t) == <<"pubkey", "sequencer">>

\* sha256d::Hash::hash(body)
Sha256d(b) == <<"sha256d", b>>

\* decompress_blob on a body produced by compress_blob.
DecompressBlob(b) == <<"content", b[2]>>

\* The blob a sequencer supplies for transaction t.
HonestBlob(t) == [hash |-> Sha256d(Body(t)), sender |-> PublicKey(t),
                  content |-> DecompressBlob(Body(t))]

BlobSet == { HonestBlob(2), HonestBlob(3),
             [HonestBlob(2) EXCEPT !.sender = <<"pubkey", "other">>],
             [HonestBlob(2) EXCEPT !.content = DecompressBlob(Body(3))] }

\* ------------------------------------------------------------------
\* merkle_tree::calculate_root (rust-bitcoin): pairs are hashed level by
\* level, the last element of an odd level is paired with itself.
\* ------------------------------------------------------------------
Min(a, b) == IF a < b THEN a ELSE b

\* Variant: the last element of an odd level is carried up unhashed.
MerkleLevelCarryOdd(s) ==
    [i \in 1..((Len(s) + 1) \div 2) |->
        IF 2 * i > Len(s) THEN s[2 * i - 1] ELSE MerkleNode(s[2 * i - 1], s[2 * i])]

MerkleLevel(s) ==
    [i \in 1..((Len(s) + 1) \div 2) |-> MerkleNode(s[2 * i - 1], s[Min(2 * i, Len(s))])]

RECURSIVE MerkleRootR(_)
MerkleRootR(s) == IF Len(s) = 1 THEN s[1] ELSE MerkleRootR(MerkleLevel(s))

\* calculate_root(...).unwrap(): defined on non-empty lists only.
CalculateRoot(txs) == MerkleRootR([i \in 1..Len(txs) |-> TxHash(txs[i])])

\* ------------------------------------------------------------------
\* Block header and validity condition
\* ------------------------------------------------------------------
GenesisHash == <<"blockhash", "genesis">>
OtherRoot == <<"node", "other">>

\* block_hash of a header: sha256d of the serialized header.
BlockHash(h) == <<"blockhash", h.prev, h.root>>

NoVC == [prev_hash |-> <<"none">>, block_hash |-> <<"none">>]

\* ------------------------------------------------------------------
\* verify_relevant_tx_list
\* ------------------------------------------------------------------
MsgNonRelevantTx == "non-relevant tx found in completeness proof"
MsgNotFound == "tx in completeness proof is not found in DA block or order was not preserved"
MsgUnwrapKey == "called Result::unwrap() on an Err value"
\* get_script: tx.input[0] on a transaction without inputs.
MsgNoInput == "index out of bounds: the len is 0 but the index is 0"
MsgNoBlob == "valid blob was not found in blobs"
MsgTampered == "blobs was tampered with"
MsgSender == "incorrect sender in blob"
\* decompress_blob: expect("decompression failed") on an unfinished stream,
\* write_all(blob).unwrap() on bytes brotli rejects.
MsgDecompress == "decompression failed"
MsgDecompressData == "called Result::unwrap() on an Err value"
MsgIndexOOB == "index out of bounds"
MsgContent == "blob content was modified"
MsgCompleteness == "completeness proof is incorrect"
MsgRelevantMissing == "relevant transaction in DA block was not included in completeness proof"
MsgNonRelevantLeft == "non-relevant transaction found in completeness proof"
MsgUnwrapNone == "called Option::unwrap() on a None value"
MsgInclusion == "inclusion proof is incorrect"

\* State of the completeness-proof loop: cursor = prev_index_in_inclusion,
\* bi = number of blobs taken from blobs_iter, seen = completeness_tx_hashes,
\* err = "" or the panic message, at = 1-based index of the failing tx.
LoopInit == [cursor |-> 0, bi |-> 0, seen |-> {}, err |-> "", at |-> 0]

\* First index j in (from, Len(s)] with s[j] = t, or 0.
RECURSIVE FindFrom(_, _, _)
FindFrom(s, t, from) ==
    IF from >= Len(s) THEN 0
    ELSE IF s[from + 1] = t THEN from + 1 ELSE FindFrom(s, t, from + 1)

Fail(st, i, m) == [st EXCEPT !.err = m, !.at = i]

\* Variant: the block is searched from its start for every tx.
CompStepFromStart(st, i, inc, comp, blobs) ==
    LET t == comp[i]
        j == FindFrom(inc, t, 0)
        k == TxKind(t)
    IN
    IF ~IsPowTagged(t) THEN Fail(st, i, MsgNonRelevantTx)
    ELSE IF j = 0 THEN Fail(st, i, MsgNotFound)
    ELSE LET st1 == [st EXCEPT !.cursor = j] IN
    IF k \in {"plain", "noenv"} THEN [st1 EXCEPT !.seen = @ \cup {t}]
    ELSE IF k = "noinput" THEN Fail(st1, i, MsgNoInput)
    ELSE IF k = "badkey" THEN Fail(st1, i, MsgUnwrapKey)
    ELSE IF k = "badsig" THEN [st1 EXCEPT !.seen = @ \cup {t}]
    ELSE
    IF st1.bi >= Len(blobs) THEN Fail(st1, i, MsgNoBlob)
    ELSE LET blob == blobs[st1.bi + 1]
             st2 == [st1 EXCEPT !.bi = @ + 1]
         IN
         IF blob.hash # Sha256d(Body(t)) THEN Fail(st2, i, MsgTampered)
         ELSE IF PublicKey(t) # blob.sender THEN Fail(st2, i, MsgSender)
         ELSE IF k = "baddecomp" THEN Fail(st2, i, MsgDecompress)
         ELSE IF k = "badbrotli" THEN Fail(st2, i, MsgDecompressData)
         ELSE IF i > Len(blobs) THEN Fail(st2, i, MsgIndexOOB)
         ELSE IF blobs[i].content # DecompressBlob(Body(t)) THEN Fail(st2, i, MsgContent)
         ELSE [st2 EXCEPT !.seen = @ \cup {t}]

\* Variant: no 0x0000 prefix check on completeness-proof txs.
CompStepNoPrefixCheck(st, i, inc, comp, blobs) ==
    LET t == comp[i]
        j == FindFrom(inc, t, st.cursor)
        k == TxKind(t)
    IN
    IF j = 0 THEN Fail(st, i, MsgNotFound)
    ELSE LET st1 == [st EXCEPT !.cursor = j] IN
    IF k \in {"plain", "noenv"} THEN [st1 EXCEPT !.seen = @ \cup {t}]
    ELSE IF k = "noinput" THEN Fail(st1, i, MsgNoInput)
    ELSE IF k = "badkey" THEN Fail(st1, i, MsgUnwrapKey)
    ELSE IF k = "badsig" THEN [st1 EXCEPT !.seen = @ \cup {t}]
    ELSE
    IF st1.bi >= Len(blobs) THEN Fail(st1, i, MsgNoBlob)
    ELSE LET blob == blobs[st1.bi + 1]
             st2 == [st1 EXCEPT !.bi = @ + 1]
         IN
         IF blob.hash # Sha256d(Body(t)) THEN Fail(st2, i, MsgTampered)
         ELSE IF PublicKey(t) # blob.sender THEN Fail(st2, i, MsgSender)
         ELSE IF k = "baddecomp" THEN Fail(st2, i, MsgDecompress)
         ELSE IF k = "badbrotli" THEN Fail(st2, i, MsgDecompressData)
         ELSE IF i > Len(blobs) THEN Fail(st2, i, MsgIndexOOB)
         ELSE IF blobs[i].content # DecompressBlob(Body(t)) THEN Fail(st2, i, MsgContent)
         ELSE [st2 EXCEPT !.seen = @ \cup {t}]

\* The closure body for completeness_proof[i] (index_completeness = i - 1).
CompStep(st, i, inc, comp, blobs) ==
    LET t == comp[i]
        j == FindFrom(inc, t, st.cursor)
        k == TxKind(t)
    IN
    IF ~IsPowTagged(t) THEN Fail(st, i, MsgNonRelevantTx)
    ELSE IF j = 0 THEN Fail(st, i, MsgNotFound)
    ELSE LET st1 == [st EXCEPT !.cursor = j] IN
    IF k \in {"plain", "noenv"} THEN [st1 EXCEPT !.seen = @ \cup {t}]
    ELSE IF k = "noinput" THEN Fail(st1, i, MsgNoInput)
    ELSE IF k = "badkey" THEN Fail(st1, i, MsgUnwrapKey)
    ELSE IF k = "badsig" THEN [st1 EXCEPT !.seen = @ \cup {t}]
    ELSE \* signature verifies
    IF st1.bi >= Len(blobs) THEN Fail(st1, i, MsgNoBlob)
    ELSE LET blob == blobs[st1.bi + 1]
             st2 == [st1 EXCEPT !.bi = @ + 1]
         IN
         IF blob.hash # Sha256d(Body(t)) THEN Fail(st2, i, MsgTampered)
         ELSE IF PublicKey(t) # blob.sender THEN Fail(st2, i, MsgSender)
         ELSE IF k = "baddecomp" THEN Fail(st2, i, MsgDecompress)
         ELSE IF k = "badbrotli" THEN Fail(st2, i, MsgDecompressData)
         ELSE IF i > Len(blobs) THEN Fail(st2, i, MsgIndexOOB)
         ELSE IF blobs[i].content # DecompressBlob(Body(t)) THEN Fail(st2, i, MsgContent)
         ELSE [st2 EXCEPT !.seen = @ \cup {t}]

RECURSIVE CompLoop(_, _, _, _, _)
CompLoop(st, i, inc, comp, blobs) ==
    IF st.err # "" \/ i > Len(comp) THEN st
    ELSE CompLoop(CompStep(st, i, inc, comp, blobs), i + 1, inc, comp, blobs)

\* Variant: a 0x0000 txid missing from the seen set is passed over.
RECURSIVE InclusionWalkLenient(_, _, _)
InclusionWalkLenient(seen, inc, j) ==
    IF j > Len(inc) THEN [seen |-> seen, err |-> ""]
    ELSE IF ~IsPowTagged(inc[j]) THEN InclusionWalkLenient(seen, inc, j + 1)
    ELSE InclusionWalkLenient(seen \ {inc[j]}, inc, j + 1)

\* inclusion_proof.txs.iter().for_each(...): removes every 0x0000 txid
\* from the seen set; err is "" or the panic message.
RECURSIVE InclusionWalk(_, _, _)
InclusionWalk(seen, inc, j) ==
    IF j > Len(inc) THEN [seen |-> seen, err |-> ""]
    ELSE IF ~IsPowTagged(inc[j]) THEN InclusionWalk(seen, inc, j + 1)
    ELSE IF inc[j] \in seen THEN InclusionWalk(seen \ {inc[j]}, inc, j + 1)
    ELSE [seen |-> seen, err |-> MsgRelevantMissing]

Err(m, at, bi) == [ok |-> FALSE, msg |-> m, at |-> at, bi |-> bi, vc |-> NoVC]

\* Variant: leftover blobs are not detected.
VerifyNoExhaustCheck(hdr, blobs, inc, comp) ==
    LET vc == [prev_hash |-> hdr.prev, block_hash |-> hdr.prev]
        lp == CompLoop(LoopInit, 1, inc, comp, blobs)
        wk == InclusionWalk(lp.seen, inc, 1)
    IN
    IF lp.err # "" THEN Err(lp.err, lp.at, lp.bi)
    ELSE IF wk.err # "" THEN Err(wk.err, 0, lp.bi)
    ELSE IF wk.seen # {} THEN Err(MsgNonRelevantLeft, 0, lp.bi)
    ELSE IF Len(inc) = 0 THEN Err(MsgUnwrapNone, 0, lp.bi)
    ELSE IF CalculateRoot(inc) # hdr.root THEN Err(MsgInclusion, 0, lp.bi)
    ELSE [ok |-> TRUE, msg |-> "", at |-> 0, bi |-> lp.bi, vc |-> vc]

VerifyRelevantTxList(hdr, blobs, inc, comp) ==
    LET vc == [prev_hash |-> hdr.prev, block_hash |-> hdr.prev]
        lp == CompLoop(LoopInit, 1, inc, comp, blobs)
        wk == InclusionWalk(lp.seen, inc, 1)
    IN
    IF lp.err # "" THEN Err(lp.err, lp.at, lp.bi)
    ELSE IF lp.bi < Len(blobs) THEN Err(MsgCompleteness, 0, lp.bi)
    ELSE IF wk.err # "" THEN Err(wk.err, 0, lp.bi)
    ELSE IF wk.seen # {} THEN Err(MsgNonRelevantLeft, 0, lp.bi)
    ELSE IF Len(inc) = 0 THEN Err(MsgUnwrapNone, 0, lp.bi)
    ELSE IF CalculateRoot(inc) # hdr.root THEN Err(MsgInclusion, 0, lp.bi)
    ELSE [ok |-> TRUE, msg |-> "", at |-> 0, bi |-> lp.bi, vc |-> vc]

\* ------------------------------------------------------------------
\* Script instructions and the envelope parser (parsers.rs)
\* ------------------------------------------------------------------

\* Byte strings are sequences of symbols; a tag is a fixed byte string
\* shared by builder and parser, all five distinct.
RollupNameTag == <<"tag_rollup_name">>
SignatureTag == <<"tag_signature">>
PublicKeyTag == <<"tag_publickey">>
RandomTag == <<"tag_random">>
BodyTag == <<"tag_body">>

\* Instruction yielded by script.instructions(): a data push (OP_0 and an
\* empty push both decode as PushBytes([])), an opcode, or a decoding error.
Push(b) == [k |-> "push", op |-> "", b |-> b]
Op(o) == [k |-> "op", op |-> o, b |-> <<>>]
BadInstr == [k |-> "bad", op |-> "", b |-> <<>>]
OpFalse == Push(<<>>)

ErrNone == ""
ErrInvalidRollupName == "InvalidRollupName"
ErrNonPushOp == "EnvelopeHasNonPushOp"
ErrIncorrectFormat == "EnvelopeHasIncorrectFormat"
ErrNonTapscript == "NonTapscriptWitness"

ParserInit == [last |-> "none", inside |-> FALSE, idx |-> 0,
               body |-> <<>>, signature |-> <<>>, public_key |-> <<>>,
               stop |-> "", err |-> ErrNone]

\* Variant: the body tag position is not checked.
ParseInstrNoBodyTag(st, x, name) ==
    IF x.k = "op" /\ x.op = "IF" THEN
        IF st.last = "FALSE" THEN [st EXCEPT !.inside = TRUE]
        ELSE IF st.inside THEN [st EXCEPT !.stop = "return", !.err = ErrNonPushOp]
        ELSE st
    ELSE IF x.k = "op" /\ x.op = "ENDIF" THEN
        IF st.inside THEN [st EXCEPT !.stop = "break"] ELSE st
    ELSE IF x.k = "op" THEN
        IF st.inside THEN [st EXCEPT !.stop = "return", !.err = ErrNonPushOp]
        ELSE [st EXCEPT !.last = x.op]
    ELSE
    IF st.inside THEN
        LET i == st.idx
            b == x.b
            st1 == [st EXCEPT !.idx = @ + 1]
        IN
        IF i = 0 /\ b # RollupNameTag THEN [st EXCEPT !.stop = "return", !.err = ErrIncorrectFormat]
        ELSE IF i = 1 /\ b # name THEN [st EXCEPT !.stop = "return", !.err = ErrInvalidRollupName]
        ELSE IF i = 2 /\ b # SignatureTag THEN [st EXCEPT !.stop = "return", !.err = ErrIncorrectFormat]
        ELSE IF i = 3 THEN [st1 EXCEPT !.signature = @ \o b]
        ELSE IF i = 4 /\ b # PublicKeyTag THEN [st EXCEPT !.stop = "return", !.err = ErrIncorrectFormat]
        ELSE IF i = 5 THEN [st1 EXCEPT !.public_key = @ \o b]
        ELSE IF i = 6 /\ b # RandomTag THEN [st EXCEPT !.stop = "return", !.err = ErrIncorrectFormat]
        ELSE IF i >= 9 THEN [st1 EXCEPT !.body = @ \o b]
        ELSE st1
    ELSE IF Len(x.b) = 0 THEN [st EXCEPT !.last = "FALSE"]
    ELSE st

\* Variant: ENDIF closes the envelope and parsing goes on.
ParseInstrNoBreak(st, x, name) ==
    IF x.k = "op" /\ x.op = "IF" THEN
        IF st.last = "FALSE" THEN [st EXCEPT !.inside = TRUE]
        ELSE IF st.inside THEN [st EXCEPT !.stop = "return", !.err = ErrNonPushOp]
        ELSE st
    ELSE IF x.k = "op" /\ x.op = "ENDIF" THEN
        IF st.inside THEN [st EXCEPT !.inside = FALSE] ELSE st
    ELSE IF x.k = "op" THEN
        IF st.inside THEN [st EXCEPT !.stop = "return", !.err = ErrNonPushOp]
        ELSE [st EXCEPT !.last = x.op]
    ELSE \* PushBytes
    IF st.inside THEN
        LET i == st.idx
            b == x.b
            st1 == [st EXCEPT !.idx = @ + 1]
        IN
        IF i = 0 /\ b # RollupNameTag THEN [st EXCEPT !.stop = "return", !.err = ErrIncorrectFormat]
        ELSE IF i = 1 /\ b # name THEN [st EXCEPT !.stop = "return", !.err = ErrInvalidRollupName]
        ELSE IF i = 2 /\ b # SignatureTag THEN [st EXCEPT !.stop = "return", !.err = ErrIncorrectFormat]
        ELSE IF i = 3 THEN [st1 EXCEPT !.signature = @ \o b]
        ELSE IF i = 4 /\ b # PublicKeyTag THEN [st EXCEPT !.stop = "return", !.err = ErrIncorrectFormat]
        ELSE IF i = 5 THEN [st1 EXCEPT !.public_key = @ \o b]
        ELSE IF i = 6 /\ b # RandomTag THEN [st EXCEPT !.stop = "return", !.err = ErrIncorrectFormat]
        ELSE IF i = 8 /\ b # BodyTag THEN [st EXCEPT !.stop = "return", !.err = ErrIncorrectFormat]
        ELSE IF i >= 9 THEN [st1 EXCEPT !.body = @ \o b]
        ELSE st1
    ELSE IF Len(x.b) = 0 THEN [st EXCEPT !.last = "FALSE"]
    ELSE st

\* One iteration of the while-let loop on instruction x; stop is "break"
\* after the closing ENDIF, "return" on an early error return.
ParseInstr(st, x, name) ==
    IF x.k = "op" /\ x.op = "IF" THEN
        IF st.last = "FALSE" THEN [st EXCEPT !.inside = TRUE]
        ELSE IF st.inside THEN [st EXCEPT !.stop = "return", !.err = ErrNonPushOp]
        ELSE st
    ELSE IF x.k = "op" /\ x.op = "ENDIF" THEN
        IF st.inside THEN [st EXCEPT !.stop = "break"] ELSE st
    ELSE IF x.k = "op" THEN
        IF st.inside THEN [st EXCEPT !.stop = "return", !.err = ErrNonPushOp]
        ELSE [st EXCEPT !.last = x.op]
    ELSE \* PushBytes
    IF st.inside THEN
        LET i == st.idx
            b == x.b
            st1 == [st EXCEPT !.idx = @ + 1]
        IN
        IF i = 0 /\ b # RollupNameTag THEN [st EXCEPT !.stop = "return", !.err = ErrIncorrectFormat]
        ELSE IF i = 1 /\ b # name THEN [st EXCEPT !.stop = "return", !.err = ErrInvalidRollupName]
        ELSE IF i = 2 /\ b # SignatureTag THEN [st EXCEPT !.stop = "return", !.err = ErrIncorrectFormat]
        ELSE IF i = 3 THEN [st1 EXCEPT !.signature = @ \o b]
        ELSE IF i = 4 /\ b # PublicKeyTag THEN [st EXCEPT !.stop = "return", !.err = ErrIncorrectFormat]
        ELSE IF i = 5 THEN [st1 EXCEPT !.public_key = @ \o b]
        ELSE IF i = 6 /\ b # RandomTag THEN [st EXCEPT !.stop = "return", !.err = ErrIncorrectFormat]
        ELSE IF i = 8 /\ b # BodyTag THEN [st EXCEPT !.stop = "return", !.err = ErrIncorrectFormat]
        ELSE IF i >= 9 THEN [st1 EXCEPT !.body = @ \o b]
        ELSE st1
    ELSE IF Len(x.b) = 0 THEN [st EXCEPT !.last = "FALSE"]
    ELSE st

RECURSIVE ParseLoop(_, _, _, _)
ParseLoop(st, toks, i, name) ==
    IF st.stop # "" \/ i > Len(toks) \/ toks[i].k = "bad" THEN st
    ELSE ParseLoop(ParseInstr(st, toks[i], name), toks, i + 1, name)

\* Variant: only an empty body is rejected after the loop.
ParseRelevantInscriptionsBodyOnly(toks, name) ==
    LET st == ParseLoop(ParserInit, toks, 1, name) IN
    IF st.stop = "return"
    THEN [err |-> st.err, body |-> <<>>, signature |-> <<>>, public_key |-> <<>>, early |-> TRUE]
    ELSE IF Len(st.body) = 0
    THEN [err |-> ErrIncorrectFormat, body |-> <<>>, signature |-> <<>>,
          public_key |-> <<>>, early |-> FALSE]
    ELSE [err |-> ErrNone, body |-> st.body, signature |-> st.signature,
          public_key |-> st.public_key, early |-> FALSE]

\* parse_relevant_inscriptions; early = an error returned inside the loop.
ParseRelevantInscriptions(toks, name) ==
    LET st == ParseLoop(ParserInit, toks, 1, name) IN
    IF st.stop = "return"
    THEN [err |-> st.err, body |-> <<>>, signature |-> <<>>, public_key |-> <<>>, early |-> TRUE]
    ELSE IF Len(st.body) = 0 \/ Len(st.signature) = 0 \/ Len(st.public_key) = 0
    THEN [err |-> ErrIncorrectFormat, body |-> <<>>, signature |-> <<>>,
          public_key |-> <<>>, early |-> FALSE]
    ELSE [err |-> ErrNone, body |-> st.body, signature |-> st.signature,
          public_key |-> st.public_key, early |-> FALSE]

\* Stands for a witness without a tapscript (get_script's None): a one-element
\* script whose element is no instruction, so it compares with any script.
NoTapscript == <<[k |-> "none", op |-> "", b |-> <<>>]>>

\* Stands for a transaction without inputs: get_script indexes tx.input[0]
\* and panics.
NoInputs == <<[k |-> "noinput", op |-> "", b |-> <<>>]>>

\* parse_transaction: the tapscript of input 0 (NoTapscript if the witness
\* has none, NoInputs if there is no input 0), then the envelope parser.
ParseTransaction(tapscript, name) ==
    IF tapscript = NoInputs
    THEN [err |-> MsgNoInput, body |-> <<>>, signature |-> <<>>,
          public_key |-> <<>>, early |-> TRUE]
    ELSE IF tapscript = NoTapscript
    THEN [err |-> ErrNonTapscript, body |-> <<>>, signature |-> <<>>,
          public_key |-> <<>>, early |-> TRUE]
    ELSE ParseRelevantInscriptions(tapscript, name)

\* ------------------------------------------------------------------
\* Reveal script of create_inscription_transactions (builders.rs)
\* ------------------------------------------------------------------
MaxNonce == 3

\* x-only key of the fresh commit key pair.
XOnlyKey == <<"xonly_commit_key">>

ChunkSize == 520

\* body.chunks(520)
Chunks(b) ==
    [i \in 1..((Len(b) + ChunkSize - 1) \div ChunkSize) |->
        SubSeq(b, (i - 1) * ChunkSize + 1, Min(i * ChunkSize, Len(b)))]

\* Minimal script-number encoding of n (a non-empty byte string for n not
\* in -1..16).
ScriptNum(n) == <<"scriptnum", n>>

\* script::Builder::push_int: -1 and 1..16 become OP_PUSHNUM opcodes, 0
\* becomes OP_0 (an empty push), anything else a data push.
PushInt(n) ==
    IF n = -1 \/ (n >= 1 /\ n <= 16) THEN Op("PUSHNUM")
    ELSE IF n = 0 THEN Push(<<>>)
    ELSE Push(ScriptNum(n))

RevealScript(name, sig, pk, nonce, body) ==
    <<Push(XOnlyKey), Op("CHECKSIG"), OpFalse, Op("IF"),
      Push(RollupNameTag), Push(name), Push(SignatureTag), Push(sig),
      Push(PublicKeyTag), Push(pk), Push(RandomTag), PushInt(nonce), Push(BodyTag)>>
    \o [i \in DOMAIN Chunks(body) |-> Push(Chunks(body)[i])]
    \o <<Op("ENDIF")>>

\* ------------------------------------------------------------------
\* Coin selection and the fee loops (builders.rs)
\* ------------------------------------------------------------------
\* A UTXO: id stands for (tx_id, vout).
RECURSIVE SumAmounts(_)
SumAmounts(us) == IF us = <<>> THEN 0 ELSE Head(us).amount + SumAmounts(Tail(us))

\* Stable sort by amount, small first: x goes after the equal elements.
RECURSIVE InsertAsc(_, _)
InsertAsc(x, s) ==
    IF s = <<>> THEN <<x>>
    ELSE IF x.amount < Head(s).amount THEN <<x>> \o s
    ELSE <<Head(s)>> \o InsertAsc(x, Tail(s))

RECURSIVE SortAscR(_, _)
SortAscR(s, acc) == IF s = <<>> THEN acc ELSE SortAscR(Tail(s), InsertAsc(Head(s), acc))
SortAsc(s) == SortAscR(s, <<>>)

\* Stable sort by amount, large first (sort_by(|a, b| b.amount.cmp(&a.amount))).
RECURSIVE InsertDesc(_, _)
InsertDesc(x, s) ==
    IF s = <<>> THEN <<x>>
    ELSE IF x.amount > Head(s).amount THEN <<x>> \o s
    ELSE <<Head(s)>> \o InsertDesc(x, Tail(s))

RECURSIVE SortDescR(_, _)
SortDescR(s, acc) == IF s = <<>> THEN acc ELSE SortDescR(Tail(s), InsertDesc(Head(s), acc))
SortDesc(s) == SortDescR(s, <<>>)

\* for utxo in smaller_utxos { sum += ..; push; if sum >= amount { break } }
RECURSIVE TakeUntil(_, _, _, _)
TakeUntil(s, sum, amount, acc) ==
    IF s = <<>> THEN [chosen |-> acc, sum |-> sum]
    ELSE LET sum2 == sum + Head(s).amount
             acc2 == Append(acc, Head(s))
         IN IF sum2 >= amount THEN [chosen |-> acc2, sum |-> sum2]
            ELSE TakeUntil(Tail(s), sum2, amount, acc2)

ErrNotEnoughUtxos == "not enought UTXOs"

\* Variant: the largest sufficient UTXO is taken.
ChooseUtxosLargestBig(us, amount) ==
    LET bigger == SelectSeq(us, LAMBDA u : u.amount >= amount) IN
    IF Len(bigger) > 0
    THEN LET u == SortAsc(bigger)[Len(bigger)]
         IN [ok |-> TRUE, chosen |-> <<u>>, sum |-> u.amount, err |-> ""]
    ELSE LET smaller == SelectSeq(us, LAMBDA u : u.amount < amount)
             r == TakeUntil(SortDesc(smaller), 0, amount, <<>>)
         IN IF r.sum < amount
            THEN [ok |-> FALSE, chosen |-> <<>>, sum |-> r.sum, err |-> ErrNotEnoughUtxos]
            ELSE [ok |-> TRUE, chosen |-> r.chosen, sum |-> r.sum, err |-> ""]

\* choose_utxos(utxos, amount)
ChooseUtxos(us, amount) ==
    LET bigger == SelectSeq(us, LAMBDA u : u.amount >= amount) IN
    IF Len(bigger) > 0
    THEN LET u == SortAsc(bigger)[1]
         IN [ok |-> TRUE, chosen |-> <<u>>, sum |-> u.amount, err |-> ""]
    ELSE LET smaller == SelectSeq(us, LAMBDA u : u.amount < amount)
             r == TakeUntil(SortDesc(smaller), 0, amount, <<>>)
         IN IF r.sum < amount
            THEN [ok |-> FALSE, chosen |-> <<>>, sum |-> r.sum, err |-> ErrNotEnoughUtxos]
            ELSE [ok |-> TRUE, chosen |-> r.chosen, sum |-> r.sum, err |-> ""]

\* Dust floor used for eligibility, change and the reveal input.
DustLimit == 546
\* Value of the commit output and of the reveal output.
PostageValue == 546
\* SCHNORR_SIGNATURE_SIZE
SchnorrSigSize == 64
\* Serialized control block of a single-leaf tapscript tree.
ControlBlockSize == 33

\* script_pubkey length of an address.
AddrSpkLen(addr) == IF addr = "p2wpkh" THEN 22 ELSE 34

VarIntLen(n) == IF n < 253 THEN 1 ELSE IF n <= 65535 THEN 3 ELSE 5

RECURSIVE OutBytes(_)
OutBytes(outs) ==
    IF outs = <<>> THEN 0
    ELSE 8 + VarIntLen(AddrSpkLen(Head(outs).addr)) + AddrSpkLen(Head(outs).addr)
         + OutBytes(Tail(outs))

RECURSIVE SumValues(_)
SumValues(outs) == IF outs = <<>> THEN 0 ELSE Head(outs).value + SumValues(Tail(outs))

\* get_size: vsize of a version-1 transaction with nIn inputs (empty
\* script_sig) and outputs outs, where input 0 carries a 64-byte signature
\* and, when slen > 0, the reveal script of slen bytes and the control
\* block; the other inputs have an empty witness.
GetSize(nIn, outs, slen) ==
    LET base == 4 + VarIntLen(nIn) + nIn * 41 + VarIntLen(Len(outs)) + OutBytes(outs) + 4
        w0 == IF slen = 0 THEN 1 + 1 + SchnorrSigSize
              ELSE 1 + 1 + SchnorrSigSize + VarIntLen(slen) + slen
                   + VarIntLen(ControlBlockSize) + ControlBlockSize
        wit == 2 + w0 + (nIn - 1)
    IN (4 * base + wit + 3) \div 4

\* ((size as f64) * fee_rate).ceil() as u64, fee_rate = num / den (exact
\* in f64 for the rates used).
Fee(size, rate) == (size * rate.num + rate.den - 1) \div rate.den

Eligible(u) == u.spendable /\ u.solvable /\ u.amount > DustLimit

\* Variant: the amount floor is inclusive.
FilterEligibleAtDust(us) ==
    SelectSeq(us, LAMBDA u : u.spendable /\ u.solvable /\ u.amount >= DustLimit)

\* Variant: only spendable and solvable are required.
FilterEligibleAnyAmount(us) == SelectSeq(us, LAMBDA u : u.spendable /\ u.solvable)

\* utxos.iter().filter(spendable && solvable && amount > 546)
FilterEligible(us) == SelectSeq(us, Eligible)

\* Variant: any non-negative excess becomes a change output.
WithChangeAnyExcess(outs, sum, itotal, addr) ==
    IF sum - itotal >= 0
    THEN Append(outs, [value |-> sum - itotal, addr |-> addr])
    ELSE outs

\* excess = sum.checked_sub(input_total); a change output when >= 546.
WithChange(outs, sum, itotal, addr) ==
    IF sum - itotal >= DustLimit
    THEN Append(outs, [value |-> sum - itotal, addr |-> addr])
    ELSE outs

ErrNoSpendable == "no spendable utxos"
ErrUtxosNotEnough == "utxos are not enough"
ErrInputTooSmall == "input utxo not big enough"

\* txid: covers inputs and outputs, not the witness.
TxidOf(tx) == <<"txid", tx.inputs, tx.outputs>>

LoopAt(pc, size, pool) ==
    [pc |-> pc, size |-> size, pool |-> pool, sum |-> 0, err |-> "",
     tx |-> [inputs |-> <<>>, outputs |-> <<>>]]

\* build_commit_transaction up to the loop: first size, eligibility filter.
CommitStartOp(f) ==
    LET size0 == GetSize(1, <<[value |-> f.out, addr |-> f.addr]>>, 0)
        pool == FilterEligible(f.utxos)
    IN IF pool = <<>> THEN [LoopAt("failed", size0, pool) EXCEPT !.err = ErrNoSpendable]
       ELSE LoopAt("loop", size0, pool)

\* One iteration of the commit loop; size = last_size at the loop head.
CommitIterOp(st, f) ==
    LET fee == Fee(st.size, f.rate)
        itotal == f.out + fee
        res == ChooseUtxos(st.pool, itotal)
        outs == WithChange(<<[value |-> f.out, addr |-> f.addr]>>, res.sum, itotal, f.addr)
        ins == [i \in DOMAIN res.chosen |-> [txid |-> <<"utxo", res.chosen[i].id>>, vout |-> 0]]
        nsize == GetSize(Len(ins), outs, 0)
    IN [sel |-> [amount |-> itotal, res |-> res],
        fst |-> IF ~res.ok THEN [st EXCEPT !.pc = "failed", !.err = ErrUtxosNotEnough]
                ELSE IF nsize = st.size
                THEN [st EXCEPT !.pc = "done", !.sum = res.sum,
                                !.tx = [inputs |-> ins, outputs |-> outs]]
                ELSE [st EXCEPT !.size = nsize]]

\* build_reveal_transaction up to the loop.
RevealStartOp(f) ==
    LET size0 == GetSize(1, <<[value |-> f.out, addr |-> f.addr]>>, f.slen) IN
    IF f.value < DustLimit THEN [LoopAt("failed", size0, <<>>) EXCEPT !.err = ErrInputTooSmall]
    ELSE LoopAt("loop", size0, <<>>)

\* One iteration of the reveal loop.
RevealIterOp(st, f) ==
    LET fee == Fee(st.size, f.rate)
        itotal == f.out + fee
        outs == WithChange(<<[value |-> f.out, addr |-> f.addr]>>, f.value, itotal, f.addr)
        ins == <<[txid |-> f.txid, vout |-> f.vout]>>
        nsize == GetSize(1, outs, f.slen)
    IN IF nsize = st.size
       THEN [st EXCEPT !.pc = "done", !.sum = f.value, !.tx = [inputs |-> ins, outputs |-> outs]]
       ELSE [st EXCEPT !.size = nsize]

\* ------------------------------------------------------------------
\* ChainValidityCondition::combine
\* ------------------------------------------------------------------
NoComb == [ok |-> FALSE, err |-> "none", vc |-> NoVC]

\* Variant: compares the two prev hashes.
CombineSamePrev(a, rhs) ==
    IF a.prev_hash # rhs.prev_hash
    THEN [ok |-> FALSE, err |-> "BlocksNotConsecutive", vc |-> NoVC]
    ELSE [ok |-> TRUE, err |-> "", vc |-> rhs]

Combine(a, rhs) ==
    IF a.block_hash # rhs.prev_hash
    THEN [ok |-> FALSE, err |-> "BlocksNotConsecutive", vc |-> NoVC]
    ELSE [ok |-> TRUE, err |-> "", vc |-> rhs]

\* ------------------------------------------------------------------
\* State machine: the verifier's inputs and its result
\* ------------------------------------------------------------------
VARIABLES hdr, inc, comp, blobs, result, orig,
          hdr2, inc2, comp2, blobs2, result2, vcA, vcB, comb,
          script, pmeta, pres,
          bin, world, nonce, bpc, bres, parsed,
          fin, fst, sel, ctx, stage

verVars == <<hdr, inc, comp, blobs, result, orig,
             hdr2, inc2, comp2, blobs2, result2, vcA, vcB, comb>>
parVars == <<script, pmeta, pres>>
bldVars == <<bin, world, nonce, bpc, bres, parsed>>

feeVars == <<fin, fst, sel, ctx, stage>>

vars == <<verVars, parVars, bldVars, feeVars>>

NoParse == [err |-> "none", body |-> <<>>, signature |-> <<>>,
            public_key |-> <<>>, early |-> FALSE]
NoBuild == [nonce |-> -1, script |-> <<>>]
NoInput == [name |-> <<>>, body |-> <<>>, signature |-> <<>>, public_key |-> <<>>]

ParserIdle == script = <<>> /\ pmeta = [fam |-> "none"] /\ pres = NoParse
BuilderIdle ==
    /\ bin = NoInput /\ world = <<>> /\ nonce = 0 /\ bpc = "idle"
    /\ bres = NoBuild /\ parsed = NoParse

NoSel == [amount |-> 0, res |-> [ok |-> FALSE, chosen |-> <<>>, sum |-> 0, err |-> "none"]]
NoFeeLoop == [pc |-> "idle", size |-> 0, pool |-> <<>>, sum |-> 0, err |-> "",
              tx |-> [inputs |-> <<>>, outputs |-> <<>>]]
FeeIdle ==
    /\ fin = [kind |-> "none"] /\ fst = NoFeeLoop /\ sel = NoSel
    /\ ctx = [inputs |-> <<>>, outputs |-> <<>>] /\ stage = "idle"

NoResult == [ok |-> FALSE, msg |-> "none", at |-> 0, bi |-> 0, vc |-> NoVC]
NoHeader == [prev |-> GenesisHash, root |-> OtherRoot]

SeqsUpTo(S, n) == UNION {[1..k -> S] : k \in 0..n}

HeaderRoots(s) == IF s = <<>> THEN {OtherRoot} ELSE {CalculateRoot(s), OtherRoot}

\* Block contents a miner can produce: non-empty, no txid twice.
BlockSeqs == {s \in SeqsUpTo(Txids, MaxInc) :
                Len(s) >= 1 /\ \A i, j \in 1..Len(s) : i # j => s[i] # s[j]}

IsValidSig(t) == TxKind(t) \in {"valid", "baddecomp", "badbrotli"}
PowTaggedOf(s) == SelectSeq(s, IsPowTagged)
ValidSigOf(s) == SelectSeq(s, IsValidSig)
HonestBlobs(c) == LET v == ValidSigOf(c) IN [i \in 1..Len(v) |-> HonestBlob(v[i])]

Insert(s, p, x) == SubSeq(s, 1, p) \o <<x>> \o SubSeq(s, p + 1, Len(s))
Reorderings(s) ==
    LET n == Len(s)
        bij == {f \in [1..n -> 1..n] : \A i, j \in 1..n : i # j => f[i] # f[j]}
    IN {[i \in 1..n |-> s[f[i]]] : f \in bij}
Mutations(s) == {Insert(s, p, x) : p \in 0..Len(s), x \in Txids}
                  \cup Reorderings(s)

SecondInit ==
    /\ orig = <<>>
    /\ hdr2 = NoHeader /\ inc2 = <<>> /\ comp2 = <<>> /\ blobs2 = <<>>
    /\ result2 = NoResult

\* Arbitrary verifier inputs.
Init ==
    /\ inc \in SeqsUpTo(Txids, MaxInc)
    /\ comp \in SeqsUpTo(Txids, MaxComp)
    /\ blobs \in SeqsUpTo(BlobSet, MaxBlobs)
    /\ hdr \in [prev : {GenesisHash}, root : HeaderRoots(inc)]
    /\ result = NoResult
    /\ SecondInit
    /\ vcA = NoVC /\ vcB = NoVC /\ comb = NoComb
    /\ ParserIdle /\ BuilderIdle /\ FeeIdle

Verify ==
    /\ result = NoResult
    /\ result' = VerifyRelevantTxList(hdr, blobs, inc, comp)
    /\ UNCHANGED <<hdr, inc, comp, blobs, orig, hdr2, inc2, comp2, blobs2,
                   result2, vcA, vcB, comb>>
    /\ UNCHANGED <<parVars, bldVars, feeVars>>

Next == Verify

Spec == Init /\ [][Next]_vars

\* Arbitrary verifier inputs whose inclusion proof lists a block's txids
\* (no txid twice).
BlockInit ==
    /\ inc \in BlockSeqs \cup {<<>>}
    /\ comp \in SeqsUpTo(Txids, MaxComp)
    /\ blobs \in SeqsUpTo(BlobSet, MaxBlobs)
    /\ hdr \in [prev : {GenesisHash}, root : HeaderRoots(inc)]
    /\ result = NoResult
    /\ SecondInit
    /\ vcA = NoVC /\ vcB = NoVC /\ comb = NoComb
    /\ ParserIdle /\ BuilderIdle /\ FeeIdle

BlockSpec == BlockInit /\ [][Next]_vars

\* Blocks over the whole tx universe with their correct header,
\* completeness proof and blobs.
BlockSeqsOver(S) == {s \in SeqsUpTo(S, MaxInc) :
                       Len(s) >= 1 /\ \A i, j \in 1..Len(s) : i # j => s[i] # s[j]}

SkipInit ==
    /\ inc \in BlockSeqsOver(AllTxids \ {3, 7, 8})
    /\ hdr = [prev |-> GenesisHash, root |-> CalculateRoot(inc)]
    /\ comp = PowTaggedOf(inc)
    /\ blobs = HonestBlobs(comp)
    /\ result = NoResult
    /\ SecondInit
    /\ vcA = NoVC /\ vcB = NoVC /\ comb = NoComb
    /\ ParserIdle /\ BuilderIdle /\ FeeIdle

SkipSpec == SkipInit /\ [][Next]_vars

\* A correct (header, blobs, completeness proof) for block orig, with the
\* inclusion proof either orig itself, orig with one txid added, or any
\* reordering of orig.
MutInit ==
    /\ orig \in {b \in BlockSeqs :
                   VerifyRelevantTxList([prev |-> GenesisHash, root |-> CalculateRoot(b)],
                                        HonestBlobs(PowTaggedOf(b)), b, PowTaggedOf(b)).ok}
    /\ hdr = [prev |-> GenesisHash, root |-> CalculateRoot(orig)]
    /\ comp = PowTaggedOf(orig)
    /\ blobs = HonestBlobs(comp)
    /\ inc \in {orig} \cup Mutations(orig)
    /\ result = NoResult
    /\ hdr2 = NoHeader /\ inc2 = <<>> /\ comp2 = <<>> /\ blobs2 = <<>>
    /\ result2 = NoResult
    /\ vcA = NoVC /\ vcB = NoVC /\ comb = NoComb
    /\ ParserIdle /\ BuilderIdle /\ FeeIdle

MutSpec == MutInit /\ [][Next]_vars

\* Two consecutive blocks, each with correct proofs and blobs.
ChainInit ==
    /\ inc \in BlockSeqs
    /\ hdr = [prev |-> GenesisHash, root |-> CalculateRoot(inc)]
    /\ comp = PowTaggedOf(inc)
    /\ blobs = HonestBlobs(comp)
    /\ orig = inc
    /\ inc2 \in BlockSeqs
    /\ hdr2 = [prev |-> BlockHash(hdr), root |-> CalculateRoot(inc2)]
    /\ comp2 = PowTaggedOf(inc2)
    /\ blobs2 = HonestBlobs(comp2)
    /\ result = NoResult /\ result2 = NoResult
    /\ vcA = NoVC /\ vcB = NoVC /\ comb = NoComb
    /\ ParserIdle /\ BuilderIdle /\ FeeIdle

Verify2 ==
    /\ result2 = NoResult
    /\ result2' = VerifyRelevantTxList(hdr2, blobs2, inc2, comp2)
    /\ UNCHANGED <<hdr, inc, comp, blobs, result, orig, hdr2, inc2, comp2, blobs2,
                   vcA, vcB, comb>>
    /\ UNCHANGED <<parVars, bldVars, feeVars>>

\* The rollup combines the conditions of the two verified blocks.
CombineChain ==
    /\ result.ok /\ result2.ok /\ comb = NoComb
    /\ vcA' = result.vc /\ vcB' = result2.vc
    /\ comb' = Combine(result.vc, result2.vc)
    /\ UNCHANGED <<hdr, inc, comp, blobs, result, orig, hdr2, inc2, comp2, blobs2, result2>>
    /\ UNCHANGED <<parVars, bldVars, feeVars>>

ChainNext == Verify \/ Verify2 \/ CombineChain

ChainSpec == ChainInit /\ [][ChainNext]_vars

\* Arbitrary validity conditions combined.
HashValues == {GenesisHash, <<"blockhash", "b1">>, <<"blockhash", "b2">>}
VCs == [prev_hash : HashValues, block_hash : HashValues]

CombineInit ==
    /\ vcA \in VCs /\ vcB \in VCs /\ comb = NoComb
    /\ hdr = NoHeader /\ inc = <<>> /\ comp = <<>> /\ blobs = <<>>
    /\ result = NoResult
    /\ SecondInit
    /\ ParserIdle /\ BuilderIdle /\ FeeIdle

DoCombine ==
    /\ comb = NoComb
    /\ comb' = Combine(vcA, vcB)
    /\ UNCHANGED <<hdr, inc, comp, blobs, result, orig, hdr2, inc2, comp2, blobs2,
                   result2, vcA, vcB>>
    /\ UNCHANGED <<parVars, bldVars, feeVars>>

CombineNext == DoCombine

CombineSpec == CombineInit /\ [][CombineNext]_vars

\* ------------------------------------------------------------------
\* Parser runs on reveal scripts
\* ------------------------------------------------------------------
SovName == <<"sov-btc">>
OtherName == <<"not-sov-btc">>
SigBytes == <<"signature_bytes">>
PkBytes == <<"publickey_bytes">>
ChunkA == <<"chunk_a">>
ChunkB == <<"chunk_b">>

\* <xonly> CHECKSIG FALSE IF
EnvelopePrefix == <<Push(XOnlyKey), Op("CHECKSIG"), OpFalse, Op("IF")>>

\* The pushes of a well-formed envelope (nonce 0 pushed as OP_0).
CanonicalPushes ==
    <<RollupNameTag, SovName, SignatureTag, SigBytes, PublicKeyTag, PkBytes,
      RandomTag, <<>>, BodyTag, ChunkA, ChunkB>>

PushValues == {RollupNameTag, SignatureTag, PublicKeyTag, RandomTag, BodyTag,
               SovName, OtherName, SigBytes, <<>>}

Remove(s, j) == SubSeq(s, 1, j - 1) \o SubSeq(s, j + 1, Len(s))

AsPushes(ps) == [i \in DOMAIN ps |-> Push(ps[i])]

EnvelopeScript(ps) == EnvelopePrefix \o AsPushes(ps) \o <<Op("ENDIF")>>

\* Envelopes: the well-formed one, one push left out, one push replaced,
\* or the body chunks cut short.
GrammarCases ==
    {[fam |-> "grammar", pushes |-> CanonicalPushes, omitted |-> 0]}
    \cup {[fam |-> "grammar", pushes |-> Remove(CanonicalPushes, j), omitted |-> j] :
            j \in 1..Len(CanonicalPushes)}
    \cup {[fam |-> "grammar", pushes |-> [CanonicalPushes EXCEPT ![j] = v], omitted |-> 0] :
            j \in 1..Len(CanonicalPushes), v \in PushValues}
    \cup {[fam |-> "grammar", pushes |-> SubSeq(CanonicalPushes, 1, n), omitted |-> 0] :
            n \in 8..10}

GrammarInit ==
    /\ pmeta \in GrammarCases
    /\ script = EnvelopeScript(pmeta.pushes)
    /\ pres = NoParse
    /\ hdr = NoHeader /\ inc = <<>> /\ comp = <<>> /\ blobs = <<>> /\ result = NoResult
    /\ SecondInit
    /\ vcA = NoVC /\ vcB = NoVC /\ comb = NoComb
    /\ BuilderIdle /\ FeeIdle

\* parse_relevant_inscriptions on the script with rollup name "sov-btc".
Parse ==
    /\ pres = NoParse
    /\ pres' = ParseRelevantInscriptions(script, SovName)
    /\ UNCHANGED <<verVars, script, pmeta, bldVars, feeVars>>

ParseNext == Parse

GrammarSpec == GrammarInit /\ [][ParseNext]_vars

\* Verifier and builder untouched while the parser runs.
ParserOnly ==
    /\ hdr = NoHeader /\ inc = <<>> /\ comp = <<>> /\ blobs = <<>> /\ result = NoResult
    /\ SecondInit
    /\ vcA = NoVC /\ vcB = NoVC /\ comb = NoComb
    /\ BuilderIdle /\ FeeIdle

Take(s, k) == SubSeq(s, 1, k)
Drop(s, k) == SubSeq(s, k + 1, Len(s))

\* An opcode placed after the first k pushes of a well-formed envelope.
EnvelopeOps == {"IF", "NOTIF", "ELSE", "CHECKSIG", "DROP"}
NestCases ==
    {[fam |-> "nest", op |-> o, at |-> k,
      scr |-> EnvelopePrefix \o AsPushes(Take(CanonicalPushes, k)) \o <<Op(o)>>
              \o AsPushes(Drop(CanonicalPushes, k)) \o <<Op("ENDIF")>>] :
        o \in EnvelopeOps, k \in 0..Len(CanonicalPushes)}

\* What may follow the first ENDIF.
SecondPushes == [CanonicalPushes EXCEPT ![4] = <<"other_signature">>, ![10] = <<"other_chunk">>]
Tails ==
    {<<>>,
     <<OpFalse, Op("IF")>> \o AsPushes(SecondPushes) \o <<Op("ENDIF")>>,
     <<Op("CHECKSIG"), Op("IF"), Push(<<"junk">>)>>,
     <<Push(<<"junk">>), BadInstr, Op("ENDIF")>>}
TwoCases ==
    {[fam |-> "two", pushes |-> g.pushes, tail |-> t,
      scr |-> EnvelopeScript(g.pushes) \o t] : g \in GrammarCases, t \in Tails}

\* Scripts whose loop may end with an empty field: no envelope, a decoding
\* error inside the envelope, or the grammar cases.
NoEnvelopeScripts ==
    {<<>>, <<Push(XOnlyKey), Op("CHECKSIG")>>,
     <<Push(XOnlyKey), Op("CHECKSIG"), OpFalse>>,
     <<Push(XOnlyKey), Op("CHECKSIG"), Op("IF")>> \o AsPushes(CanonicalPushes)}
EndCases ==
    {[fam |-> "end", scr |-> t] : t \in NoEnvelopeScripts}
    \cup {[fam |-> "end", scr |-> EnvelopeScript(g.pushes)] : g \in GrammarCases}
    \cup {[fam |-> "end", scr |-> EnvelopePrefix \o AsPushes(Take(CanonicalPushes, k))
                                  \o <<BadInstr>> \o AsPushes(Drop(CanonicalPushes, k))]
            : k \in 0..Len(CanonicalPushes)}

\* Instructions between FALSE and IF before a well-formed envelope.
GapInstrs == {OpFalse, Push(<<"junk">>), Op("ENDIF"), Op("CHECKSIG"), Op("NOP")}
Gaps == {<<>>} \cup {<<x>> : x \in GapInstrs} \cup {<<x, y>> : x, y \in GapInstrs}
GapCases ==
    {[fam |-> "gap", gap |-> gp,
      scr |-> <<Push(XOnlyKey), Op("CHECKSIG"), OpFalse>> \o gp \o <<Op("IF")>>
              \o AsPushes(ps) \o <<Op("ENDIF")>>] :
        gp \in Gaps, ps \in {CanonicalPushes, Take(CanonicalPushes, 10)}}

NestInit == pmeta \in NestCases /\ script = pmeta.scr /\ pres = NoParse /\ ParserOnly
TwoInit == pmeta \in TwoCases /\ script = pmeta.scr /\ pres = NoParse /\ ParserOnly
EndInit == pmeta \in EndCases /\ script = pmeta.scr /\ pres = NoParse /\ ParserOnly
GapInit == pmeta \in GapCases /\ script = pmeta.scr /\ pres = NoParse /\ ParserOnly

NestSpec == NestInit /\ [][ParseNext]_vars
TwoSpec == TwoInit /\ [][ParseNext]_vars
EndSpec == EndInit /\ [][ParseNext]_vars
GapSpec == GapInit /\ [][ParseNext]_vars

\* Envelopes opened and never closed: the script ends, or decoding fails,
\* before ENDIF.
OpenPushLists ==
    {CanonicalPushes, SecondPushes,
     <<RollupNameTag, SovName, SignatureTag, SigBytes, PublicKeyTag, PkBytes,
       RandomTag, <<"n">>, BodyTag, ChunkA>>}
OpenTails == {<<>>, <<BadInstr>>, <<BadInstr, Op("ENDIF")>>}
OpenCases ==
    UNION {{[fam |-> "open", scr |-> EnvelopePrefix \o AsPushes(Take(ps, k)) \o t] :
              k \in 0..Len(ps), t \in OpenTails} : ps \in OpenPushLists}
OpenInit == pmeta \in OpenCases /\ script = pmeta.scr /\ pres = NoParse /\ ParserOnly
OpenSpec == OpenInit /\ [][ParseNext]_vars

\* ------------------------------------------------------------------
\* create_inscription_transactions and parsing its reveal transaction
\* ------------------------------------------------------------------
\* Builder inputs: rollup name, compressed body (one chunk or two chunks of
\* 520 bytes), signature and sequencer public key.
LongBody == [i \in 1..(ChunkSize + 1) |-> "b"]
BuildInputs ==
    {[name |-> SovName, body |-> bd, signature |-> SigBytes, public_key |-> PkBytes] :
        bd \in {<<"a">>, LongBody}}

\* world[r]: what iteration random = r meets. "err" is a failing
\* build_commit_transaction / build_reveal_transaction (the ? operator),
\* "hit" a reveal txid starting with 0x00 0x00, "miss" any other txid.
\* The txid does not cover the witness, so the transaction returned after
\* signing has the txid that was checked.
Outcomes == {"miss", "hit", "err"}

BuildInit ==
    /\ bin \in BuildInputs
    /\ world \in [0..MaxNonce -> Outcomes]
    /\ nonce = 0
    /\ bpc = "mining"
    /\ bres = NoBuild
    /\ parsed = NoParse
    /\ hdr = NoHeader /\ inc = <<>> /\ comp = <<>> /\ blobs = <<>> /\ result = NoResult
    /\ SecondInit
    /\ vcA = NoVC /\ vcB = NoVC /\ comb = NoComb
    /\ ParserIdle /\ FeeIdle

\* Variant: a miss skips one random number.
MineStepSkip ==
    /\ bpc = "mining"
    /\ nonce <= MaxNonce
    /\ CASE world[nonce] = "err" ->
              bpc' = "failed" /\ UNCHANGED <<nonce, bres>>
         [] world[nonce] = "hit" ->
              /\ bpc' = "returned"
              /\ bres' = [nonce |-> nonce,
                          script |-> RevealScript(bin.name, bin.signature, bin.public_key,
                                                  nonce, bin.body)]
              /\ UNCHANGED nonce
         [] world[nonce] = "miss" ->
              nonce' = nonce + 2 /\ UNCHANGED <<bpc, bres>>
    /\ UNCHANGED <<verVars, parVars, feeVars, bin, world, parsed>>

\* One iteration of the mining loop with random = nonce.
MineStep ==
    /\ bpc = "mining"
    /\ nonce <= MaxNonce
    /\ CASE world[nonce] = "err" ->
              bpc' = "failed" /\ UNCHANGED <<nonce, bres>>
         [] world[nonce] = "hit" ->
              /\ bpc' = "returned"
              /\ bres' = [nonce |-> nonce,
                          script |-> RevealScript(bin.name, bin.signature, bin.public_key,
                                                  nonce, bin.body)]
              /\ UNCHANGED nonce
         [] world[nonce] = "miss" ->
              nonce' = nonce + 1 /\ UNCHANGED <<bpc, bres>>
    /\ UNCHANGED <<verVars, parVars, feeVars, bin, world, parsed>>

\* parse_transaction on the returned reveal transaction, same rollup name.
ParseReveal ==
    /\ bpc = "returned"
    /\ parsed = NoParse
    /\ parsed' = ParseTransaction(bres.script, bin.name)
    /\ UNCHANGED <<verVars, parVars, feeVars, bin, world, nonce, bpc, bres>>

BuildNext == MineStep \/ ParseReveal

BuildSpec == BuildInit /\ [][BuildNext]_vars

\* ------------------------------------------------------------------
\* choose_utxos on bounded inputs
\* ------------------------------------------------------------------
MaxUtxos == 3
MaxAmount == 7
ChooseAmounts == {1, 2, 3}

\* UTXO lists of up to MaxUtxos entries, amounts from ChooseAmounts.
PlainUtxoSeqs ==
    UNION {{[i \in 1..n |-> [id |-> i, amount |-> f[i], spendable |-> TRUE, solvable |-> TRUE]] :
              f \in [1..n -> ChooseAmounts]} : n \in 0..MaxUtxos}

\* Verifier, parser and mining loop untouched.
FeeOnly ==
    /\ hdr = NoHeader /\ inc = <<>> /\ comp = <<>> /\ blobs = <<>> /\ result = NoResult
    /\ SecondInit
    /\ vcA = NoVC /\ vcB = NoVC /\ comb = NoComb
    /\ ParserIdle /\ BuilderIdle

ChooseInit ==
    /\ fin \in {[kind |-> "choose", utxos |-> us, amount |-> a] :
                  us \in PlainUtxoSeqs, a \in 1..MaxAmount}
    /\ fst = NoFeeLoop /\ sel = NoSel
    /\ ctx = [inputs |-> <<>>, outputs |-> <<>>] /\ stage = "choose"
    /\ FeeOnly

Choose ==
    /\ stage = "choose" /\ sel = NoSel
    /\ sel' = [amount |-> fin.amount, res |-> ChooseUtxos(fin.utxos, fin.amount)]
    /\ UNCHANGED <<verVars, parVars, bldVars, fin, fst, ctx, stage>>

ChooseSpec == ChooseInit /\ [][Choose]_vars

\* ------------------------------------------------------------------
\* build_commit_transaction / build_reveal_transaction
\* ------------------------------------------------------------------
MaxCandidates == 2

UtxoPool ==
    {[id |-> 1, amount |-> 546, spendable |-> TRUE, solvable |-> TRUE],
     [id |-> 2, amount |-> 600, spendable |-> TRUE, solvable |-> TRUE],
     [id |-> 3, amount |-> 700, spendable |-> TRUE, solvable |-> TRUE],
     [id |-> 4, amount |-> 1220, spendable |-> TRUE, solvable |-> TRUE],
     [id |-> 5, amount |-> 3000, spendable |-> TRUE, solvable |-> TRUE],
     [id |-> 6, amount |-> 5000, spendable |-> FALSE, solvable |-> TRUE],
     [id |-> 7, amount |-> 2000, spendable |-> TRUE, solvable |-> FALSE]}

\* Wallet UTXO lists: distinct entries, up to MaxCandidates of them.
UtxoLists ==
    {s \in SeqsUpTo(UtxoPool, MaxCandidates) :
        \A i, j \in 1..Len(s) : i # j => s[i] # s[j]}

Rates == {[num |-> 1, den |-> 1], [num |-> 3, den |-> 2]}
RevealValues == {400, 546, 1000, 1280, 3000}
RecipientAddrs == {"p2tr", "p2wpkh"}
ScriptLens == {200, 300}

StartLoop == LoopAt("start", 0, <<>>)

CommitInputs ==
    {[kind |-> "commit", utxos |-> us, value |-> 0, txid |-> <<>>, vout |-> 0,
      out |-> PostageValue, rate |-> r, addr |-> "commit_p2tr", slen |-> 0,
      rrate |-> r, raddr |-> "p2tr"] : us \in UtxoLists, r \in Rates}

RevealInputs ==
    {[kind |-> "reveal", utxos |-> <<>>, value |-> v, txid |-> <<"txid", "commit">>, vout |-> 0,
      out |-> PostageValue, rate |-> r, addr |-> a, slen |-> sl,
      rrate |-> r, raddr |-> a] :
        v \in RevealValues, r \in Rates, a \in RecipientAddrs, sl \in ScriptLens}

FeeInit ==
    /\ fin \in CommitInputs \cup RevealInputs
    /\ fst = StartLoop /\ sel = NoSel
    /\ ctx = [inputs |-> <<>>, outputs |-> <<>>] /\ stage = "single"
    /\ FeeOnly

CommitStart ==
    /\ fin.kind = "commit" /\ fst.pc = "start"
    /\ fst' = CommitStartOp(fin)
    /\ UNCHANGED <<verVars, parVars, bldVars, fin, sel, ctx, stage>>

CommitIter ==
    /\ fin.kind = "commit" /\ fst.pc = "loop"
    /\ fst' = CommitIterOp(fst, fin).fst
    /\ sel' = CommitIterOp(fst, fin).sel
    /\ UNCHANGED <<verVars, parVars, bldVars, fin, ctx, stage>>

RevealStart ==
    /\ fin.kind = "reveal" /\ fst.pc = "start"
    /\ fst' = RevealStartOp(fin)
    /\ UNCHANGED <<verVars, parVars, bldVars, fin, sel, ctx, stage>>

RevealIter ==
    /\ fin.kind = "reveal" /\ fst.pc = "loop"
    /\ fst' = RevealIterOp(fst, fin)
    /\ UNCHANGED <<verVars, parVars, bldVars, fin, sel, ctx, stage>>

FeeNext == CommitStart \/ CommitIter \/ RevealStart \/ RevealIter

FeeSpec == FeeInit /\ [][FeeNext]_vars

FeeLiveSpec == FeeSpec /\ WF_vars(FeeNext)

\* ------------------------------------------------------------------
\* create_inscription_transactions: commit, then the reveal spending it
\* (the iteration of the mining loop that returns)
\* ------------------------------------------------------------------
CreateInit ==
    /\ fin \in {[kind |-> "commit", utxos |-> us, value |-> 0, txid |-> <<>>, vout |-> 0,
                 out |-> PostageValue, rate |-> r, addr |-> "commit_p2tr", slen |-> sl,
                 rrate |-> rr, raddr |-> a] :
                  us \in UtxoLists, r \in Rates, rr \in Rates, a \in RecipientAddrs,
                  sl \in {200}}
    /\ fst = StartLoop /\ sel = NoSel
    /\ ctx = [inputs |-> <<>>, outputs |-> <<>>] /\ stage = "commit"
    /\ FeeOnly

\* Variant: the reveal spends the last commit output.
RevealFromCommitLastOutput ==
    /\ stage = "commit" /\ fst.pc = "done"
    /\ ctx' = fst.tx
    /\ stage' = "reveal"
    /\ fin' = [fin EXCEPT !.kind = "reveal",
                          !.value = fst.tx.outputs[Len(fst.tx.outputs)].value,
                          !.txid = TxidOf(fst.tx), !.vout = Len(fst.tx.outputs) - 1,
                          !.out = PostageValue, !.rate = fin.rrate, !.addr = fin.raddr]
    /\ fst' = StartLoop
    /\ UNCHANGED <<verVars, parVars, bldVars, sel>>

\* output_to_reveal = commit.output[0]; build_reveal_transaction(output,
\* commit.txid(), 0, recipient, 546, reveal_fee_rate, ..).
RevealFromCommit ==
    /\ stage = "commit" /\ fst.pc = "done"
    /\ ctx' = fst.tx
    /\ stage' = "reveal"
    /\ fin' = [fin EXCEPT !.kind = "reveal", !.value = fst.tx.outputs[1].value,
                          !.txid = TxidOf(fst.tx), !.vout = 0,
                          !.out = PostageValue, !.rate = fin.rrate, !.addr = fin.raddr]
    /\ fst' = StartLoop
    /\ UNCHANGED <<verVars, parVars, bldVars, sel>>

CreateNext == CommitStart \/ CommitIter \/ RevealFromCommit \/ RevealStart \/ RevealIter

CreateSpec == CreateInit /\ [][CreateNext]_vars

\* ------------------------------------------------------------------
\* Properties
\* ------------------------------------------------------------------
Done == result # NoResult
Range(s) == {s[i] : i \in DOMAIN s}

IsSubseq(s, t) ==
    \E f \in [1..Len(s) -> 1..Len(t)] :
        /\ \A i \in 1..Len(s) : s[i] = t[f[i]]
        /\ \A i \in 1..(Len(s) - 1) : f[i] < f[i + 1]

\* First k such that comp[1..k] is not a subsequence of t.
FirstUnmatched(c, t) ==
    CHOOSE k \in 1..Len(c) : ~IsSubseq(SubSeq(c, 1, k), t) /\ IsSubseq(SubSeq(c, 1, k - 1), t)

FirstUntagged(c) ==
    CHOOSE k \in 1..Len(c) : ~IsPowTagged(c[k]) /\ \A m \in 1..(k - 1) : IsPowTagged(c[m])

NValid(c) == Len(ValidSigOf(c))

\* Index in c of its n-th valid-signature tx.
NthValidIndex(c, n) ==
    CHOOSE k \in 1..Len(c) : IsValidSig(c[k]) /\ NValid(SubSeq(c, 1, k)) = n

\* C1: verification returns Ok iff the completeness proof is exactly the
\* 0x0000 txs of the inclusion proof in order, the blobs match the
\* valid-signature parses one to one in order, and the merkle root of the
\* inclusion proof is the header's.
C1_OkIffCorrect ==
    Done => (result.ok <=> /\ comp = PowTaggedOf(inc)
                          /\ blobs = HonestBlobs(comp)
                          /\ inc # <<>>
                          /\ CalculateRoot(inc) = hdr.root)

\* C2: a successful verification returns prev_hash = header.prev_hash and
\* block_hash = the header's own block hash.
C2_ConditionFromHeader ==
    result.ok => result.vc = [prev_hash |-> hdr.prev, block_hash |-> BlockHash(hdr)]

\* C3: a.combine(b) is Ok(b) exactly when a.block_hash = b.prev_hash, and
\* Err(BlocksNotConsecutive) otherwise.
C3_CombineIffConsecutive ==
    comb # NoComb =>
        /\ comb.ok <=> vcA.block_hash = vcB.prev_hash
        /\ comb.ok => comb.vc = vcB
        /\ ~comb.ok => comb.err = "BlocksNotConsecutive"

C3_Witness == comb # NoComb /\ comb.ok /\ vcA # vcB

\* C4: the conditions returned for two consecutive verified blocks combine.
C4_ConsecutiveBlocksCombine == comb # NoComb => comb.ok

\* C5 (as stated): a completeness proof that is not a subsequence of the
\* inclusion proof fails with the not-found / order message.
C5_NotSubseqFailsNotFound ==
    Done /\ ~IsSubseq(comp, inc) => ~result.ok /\ result.msg = MsgNotFound

\* C5 (amended): such a proof fails, in the completeness loop at or before
\* the first tx the cursor search cannot match; when that tx is reached
\* and is 0x0000-tagged, the message is the not-found / order message.
C5_NotSubseqFails ==
    Done /\ ~IsSubseq(comp, inc) =>
        LET k == FirstUnmatched(comp, inc) IN
        /\ ~result.ok
        /\ result.at \in 1..k
        /\ (result.at = k /\ IsPowTagged(comp[k])) => result.msg = MsgNotFound

C5_Witness ==
    /\ Done /\ ~IsSubseq(comp, inc) /\ Range(comp) \subseteq Range(inc)
    /\ result.msg = MsgNotFound /\ result.at = 2

\* C6 (as stated): a completeness proof with a non-0x0000 tx fails with
\* "non-relevant tx found in completeness proof" whatever the other inputs.
C6_UntaggedFailsNonRelevant ==
    Done /\ (\E i \in 1..Len(comp) : ~IsPowTagged(comp[i])) => result.msg = MsgNonRelevantTx

\* C6 (amended): such a proof fails in the completeness loop at or before
\* the first non-0x0000 tx, and with that message when it reaches it.
C6_UntaggedFails ==
    Done /\ (\E i \in 1..Len(comp) : ~IsPowTagged(comp[i])) =>
        LET k == FirstUntagged(comp) IN
        /\ ~result.ok
        /\ result.at \in 1..k
        /\ result.at = k => result.msg = MsgNonRelevantTx

C6_Witness == Done /\ result.msg = MsgNonRelevantTx /\ result.at = 2

\* C7 (as stated): more blobs than valid-signature inscriptions fails with
\* "completeness proof is incorrect"; fewer fails on the exhausted iterator.
C7_BlobCountMessages ==
    Done =>
        /\ Len(blobs) > NValid(comp) => result.msg = MsgCompleteness
        /\ Len(blobs) < NValid(comp) => result.msg = MsgNoBlob

\* C7 (amended): a blob count different from the number of valid-signature
\* inscriptions fails.  With more blobs the message is "completeness proof
\* is incorrect" unless the completeness loop failed first; with fewer the
\* loop fails at or before the first valid tx left without a blob, and at
\* that tx either its search in the block fails or "valid blob was not
\* found in blobs".
C7_BlobCountFails ==
    Done =>
        /\ Len(blobs) > NValid(comp) =>
              ~result.ok /\ (result.at = 0 => result.msg = MsgCompleteness)
        /\ Len(blobs) < NValid(comp) =>
              LET p == NthValidIndex(comp, Len(blobs) + 1) IN
              /\ ~result.ok
              /\ result.at \in 1..p
              /\ result.at = p => result.msg \in {MsgNotFound, MsgNoBlob}

C7_Witness ==
    Done /\ Len(comp) > 0 /\ Len(blobs) > NValid(comp) /\ result.msg = MsgCompleteness

\* C8: a 0x0000 txid of the inclusion proof missing from the completeness
\* proof makes verification fail.
C8_TaggedOmittedFails ==
    Done /\ (\E j \in 1..Len(inc) : IsPowTagged(inc[j]) /\ inc[j] \notin Range(comp))
        => ~result.ok

C8_Witness ==
    /\ Done /\ result.msg = MsgRelevantMissing /\ Len(comp) > 0
    /\ \E j \in 1..Len(inc) : IsPowTagged(inc[j]) /\ inc[j] \notin Range(comp)

\* C9 (as stated): adding a txid to, or reordering, a correct inclusion
\* proof fails with "inclusion proof is incorrect".
C9_MutatedInclusionFails ==
    Done /\ inc # orig => result.msg = MsgInclusion

\* C9 (amended): it fails, with "inclusion proof is incorrect" when the
\* 0x0000 txids keep their order, except appending a copy of the last,
\* non-0x0000 txid of a block with an odd number (>= 3) of txs, which
\* leaves the merkle root unchanged and is accepted.
IsDupLast(o, s) ==
    Len(o) >= 3 /\ Len(o) % 2 = 1 /\ s = Append(o, o[Len(o)])

C9_MutatedInclusion ==
    Done /\ inc # orig =>
        IF IsDupLast(orig, inc) /\ ~IsPowTagged(orig[Len(orig)])
        THEN result.ok
        ELSE /\ ~result.ok
             /\ PowTaggedOf(inc) = PowTaggedOf(orig) => result.msg = MsgInclusion

C9_Witness == Done /\ inc # orig /\ result.ok

\* C10: each valid-signature tx takes the next blob, and a failure on it is
\* "blobs was tampered with" / "incorrect sender in blob" / "blob content
\* was modified" exactly according to that same blob's hash, sender and
\* content.
C10_BlobChecksOnTakenBlob ==
    (Done /\ result.at > 0
          /\ result.msg \in {MsgTampered, MsgSender, MsgContent, MsgIndexOOB}) =>
        LET b == blobs[result.bi]
            t == comp[result.at]
        IN
        /\ result.msg # MsgIndexOOB
        /\ result.msg = MsgTampered <=> b.hash # Sha256d(Body(t))
        /\ result.msg = MsgSender <=> (b.hash = Sha256d(Body(t)) /\ b.sender # PublicKey(t))
        /\ result.msg = MsgContent <=>
             (b.hash = Sha256d(Body(t)) /\ b.sender = PublicKey(t)
              /\ b.content # DecompressBlob(Body(t)))

IsSkipKind(t) == TxKind(t) \in {"noenv", "badsig", "badkey", "noinput"}

\* C11: a 0x0000 completeness tx whose envelope does not parse or whose
\* signature does not verify (malformed signature or key included) is
\* skipped: with correct proofs and blobs for the other txs (none of them
\* placed after a skipped one), verification succeeds.
C11_SkippedTxDoesNotFail ==
    Done /\ (\A i, j \in 1..Len(comp) : i < j => ~(IsSkipKind(comp[i]) /\ IsValidSig(comp[j])))
        => result.ok

ValidationErrors == {"InvalidTx", "InvalidProof", "InvalidBlock"}

\* C12: verify_relevant_tx_list never panics: every failure is returned as
\* Err(InvalidTx | InvalidProof | InvalidBlock).
C12_NeverPanics == Done => result.ok \/ result.msg \in ValidationErrors

TagPositions == {1, 3, 5, 7, 9}
ExpectedTag(j) ==
    CASE j = 1 -> RollupNameTag [] j = 3 -> SignatureTag [] j = 5 -> PublicKeyTag
      [] j = 7 -> RandomTag [] j = 9 -> BodyTag

RECURSIVE ConcatFrom(_, _)
ConcatFrom(ps, j) == IF j > Len(ps) THEN <<>> ELSE ps[j] \o ConcatFrom(ps, j + 1)

\* Error the positional grammar assigns to envelope pushes ps ("" if none).
GrammarError(ps, name) ==
    LET V == {j \in 1..Len(ps) : (j \in TagPositions /\ ps[j] # ExpectedTag(j))
                                 \/ (j = 2 /\ ps[j] # name)}
        m == CHOOSE x \in V : \A y \in V : x <= y
    IN IF V = {} THEN "" ELSE IF m = 2 THEN ErrInvalidRollupName ELSE ErrIncorrectFormat

ParseDone == pres # NoParse

\* C14: pushes 0,2,4,6,8 must be the five tags (else
\* EnvelopeHasIncorrectFormat), push 1 the rollup name (else
\* InvalidRollupName); push 3 is the signature, push 5 the public key and
\* pushes 9.. are concatenated into the body; leaving out a tag push is an
\* error.
C14_PositionalGrammar ==
    ParseDone /\ pmeta.fam = "grammar" =>
        LET ps == pmeta.pushes
            g == GrammarError(ps, SovName)
        IN
        /\ g # "" => pres.err = g
        /\ g = "" => pres.err \in {ErrNone, ErrIncorrectFormat}
        /\ pres.err = ErrNone =>
              /\ pres.signature = ps[4] /\ pres.public_key = ps[6]
              /\ pres.body = ConcatFrom(ps, 10)
        /\ pmeta.omitted \in TagPositions => pres.err # ErrNone

C14_Witness ==
    ParseDone /\ pmeta.fam = "grammar" /\ pres.err = ErrNone /\ Len(pres.body) = 2

\* C15: once the envelope is open, a non-push opcode other than the closing
\* ENDIF, a nested IF included, makes the parser return EnvelopeHasNonPushOp.
C15_NonPushOpRejected ==
    ParseDone /\ pmeta.fam = "nest" => pres.err = ErrNonPushOp

\* C16: with a complete first envelope, whatever follows its ENDIF (a second
\* envelope, opcodes, a decoding error) leaves the result unchanged.
C16_FirstEnvelopeWins ==
    ParseDone /\ pmeta.fam = "two" =>
        pres = ParseRelevantInscriptions(EnvelopeScript(pmeta.pushes), SovName)

C16_Witness ==
    ParseDone /\ pmeta.fam = "two" /\ pres.err = ErrNone
    /\ pmeta.tail # <<>> /\ pmeta.tail[1] = OpFalse

\* C17: when the loop ends without an early error and body, signature or
\* public_key is empty, the result is EnvelopeHasIncorrectFormat.
C17_EmptyFieldIncorrectFormat ==
    ParseDone /\ pmeta.fam = "end" =>
        LET st == ParseLoop(ParserInit, script, 1, SovName) IN
        (st.stop # "return"
         /\ (st.body = <<>> \/ st.signature = <<>> \/ st.public_key = <<>>))
            => pres.err = ErrIncorrectFormat

C17_Witness ==
    ParseDone /\ pmeta.fam = "end" /\ pres.err = ErrIncorrectFormat /\ ~pres.early
    /\ LET st == ParseLoop(ParserInit, script, 1, SovName)
       IN st.body # <<>> /\ st.signature = <<>>

\* C18: an envelope opens only when IF immediately follows FALSE; with any
\* other instruction between FALSE and IF no envelope is parsed.
C18_IfMustFollowFalse ==
    ParseDone /\ pmeta.fam = "gap" /\ pmeta.gap # <<>>
    /\ pmeta.gap[Len(pmeta.gap)] # OpFalse
        => pres.body = <<>>

\* C19: parsing the reveal transaction built for valid inputs, with the
\* same rollup name, succeeds and gives back body, signature and public key.
C19_BuildParseRoundTrip ==
    parsed # NoParse =>
        /\ parsed.err = ErrNone
        /\ parsed.body = bin.body
        /\ parsed.signature = bin.signature
        /\ parsed.public_key = bin.public_key

\* C20: when the builder returns, the reveal txid starts with 0x00 0x00 and
\* every smaller random number was tried and missed.
C20_FirstZeroPrefixNonce ==
    bpc = "returned" =>
        /\ world[bres.nonce] = "hit"
        /\ \A r \in 0..(bres.nonce - 1) : world[r] = "miss"

C20_Witness == bpc = "returned" /\ bres.nonce = 2

SetMin(S) == CHOOSE x \in S : \A y \in S : x <= y

\* C22: if some UTXO covers the amount, exactly one UTXO, the smallest such,
\* is returned; otherwise UTXOs are taken from the largest down until the
\* sum reaches the amount, and "not enought UTXOs" is returned when the
\* total of all UTXOs is below it.
C22_ChooseUtxosSpec ==
    stage = "choose" /\ sel # NoSel =>
        LET us == fin.utxos
            a == sel.amount
            r == sel.res
            big == {i \in 1..Len(us) : us[i].amount >= a}
            n == Len(r.chosen)
        IN
        IF big # {}
        THEN /\ r.ok /\ n = 1
             /\ r.chosen[1] \in Range(us)
             /\ r.chosen[1].amount = SetMin({us[i].amount : i \in big})
             /\ r.sum = r.chosen[1].amount
        ELSE IF SumAmounts(us) < a
        THEN ~r.ok /\ r.err = ErrNotEnoughUtxos
        ELSE /\ r.ok /\ n >= 1
             /\ Range(r.chosen) \subseteq Range(us)
             /\ \A i, j \in 1..n : i # j => r.chosen[i].id # r.chosen[j].id
             /\ \A i \in 1..(n - 1) : r.chosen[i].amount >= r.chosen[i + 1].amount
             /\ \A u \in Range(us) \ Range(r.chosen) : u.amount <= r.chosen[n].amount
             /\ r.sum = SumAmounts(r.chosen) /\ r.sum >= a
             /\ SumAmounts(SubSeq(r.chosen, 1, n - 1)) < a

C22_Witness ==
    stage = "choose" /\ sel # NoSel /\ sel.res.ok /\ Len(sel.res.chosen) = 2
    /\ \E u \in Range(fin.utxos) : u \notin Range(sel.res.chosen)

\* C21: the reveal spends output 0 of the commit (txid = commit txid,
\* vout 0); commit output 0 pays 546 sat to the commit address and its
\* change goes to that address too; reveal output 0 pays 546 sat to the
\* recipient.
C21_CommitRevealLinked ==
    stage = "reveal" /\ fst.pc = "done" =>
        /\ fst.tx.inputs = <<[txid |-> TxidOf(ctx), vout |-> 0]>>
        /\ ctx.outputs[1] = [value |-> 546, addr |-> "commit_p2tr"]
        /\ \A i \in 2..Len(ctx.outputs) : ctx.outputs[i].addr = "commit_p2tr"
        /\ fst.tx.outputs[1] = [value |-> 546, addr |-> fin.raddr]

C21_Witness == stage = "reveal" /\ fst.pc = "done" /\ Len(ctx.outputs) = 2

\* C23: every successful coin selection of the commit loop returns the sum
\* of the chosen UTXOs, at least the requested amount, and only eligible
\* UTXOs of the wallet list, each at most once.
C23_SelectionSound ==
    fin.kind = "commit" /\ sel # NoSel /\ sel.res.ok =>
        LET ch == sel.res.chosen IN
        /\ sel.res.sum = SumAmounts(ch)
        /\ sel.res.sum >= sel.amount
        /\ \A i \in 1..Len(ch) :
              /\ ch[i] \in Range(fin.utxos)
              /\ ch[i].spendable /\ ch[i].solvable /\ ch[i].amount > 546
        /\ \A i, j \in 1..Len(ch) : i # j => ch[i].id # ch[j].id

C23_Witness == fin.kind = "commit" /\ sel.res.ok /\ Len(sel.res.chosen) = 2

\* C24: the fee loops of build_commit_transaction and
\* build_reveal_transaction always end, with a transaction or an error.
C24_FeeLoopsTerminate == <>(fst.pc \in {"done", "failed"})

FinalSize ==
    GetSize(Len(fst.tx.inputs), fst.tx.outputs, IF fin.kind = "reveal" THEN fin.slen ELSE 0)

\* C25: for the commit and the reveal transaction the inputs cover the
\* outputs plus ceil(vsize * fee_rate) of the final transaction.
C25_FeeCovered ==
    fst.pc = "done" => fst.sum >= SumValues(fst.tx.outputs) + Fee(FinalSize, fin.rate)

\* C26: a change output (inputs - output_value - fee) is present exactly
\* when that excess is at least 546; otherwise only the primary output.
C26_ChangeIffExcessAboveDust ==
    fst.pc = "done" =>
        LET ex == fst.sum - fin.out - Fee(FinalSize, fin.rate)
            outs == fst.tx.outputs
        IN /\ Len(outs) \in {1, 2}
           /\ outs[1].value = fin.out
           /\ (Len(outs) = 2 <=> ex >= 546)
           /\ Len(outs) = 2 => outs[2].value = ex

C26_Witness == fst.pc = "done" /\ Len(fst.tx.outputs) = 2

\* C27: the commit builder considers only spendable, solvable UTXOs above
\* 546 sat and fails with "no spendable utxos" before any coin selection
\* when there is none; the reveal builder fails when its input is below
\* 546 sat.
C27_EligibilityAndDust ==
    /\ fin.kind = "commit" /\ fst.pc # "start" =>
          LET elig == {u \in Range(fin.utxos) : u.spendable /\ u.solvable /\ u.amount > 546} IN
          /\ (elig = {}) <=> (fst.pc = "failed" /\ fst.err = ErrNoSpendable)
          /\ elig = {} => sel = NoSel
          /\ Range(sel.res.chosen) \subseteq elig
    /\ fin.kind = "reveal" /\ fst.pc # "start" =>
          ((fin.value < 546) <=> (fst.pc = "failed" /\ fst.err = ErrInputTooSmall))

C27_Witness ==
    fin.kind = "commit" /\ fst.err = ErrNoSpendable /\ Len(fin.utxos) = 2

\* C28: every nonce of the mining loop is pushed so that the parser accepts
\* it at envelope index 7: the builder's own reveal script never fails with
\* EnvelopeHasNonPushOp.
C28_NonceNeverNonPush == parsed # NoParse => parsed.err # ErrNonPushOp

\* C29: an envelope that is opened but not closed by ENDIF is rejected.
C29_UnclosedRejected == ParseDone /\ pmeta.fam = "open" => pres.err # ErrNone

\* C30: after the 0x0000 check, the ordered membership walk and the
\* inclusion walk have passed, the set of seen completeness txids is
\* empty, so "non-relevant transaction found in completeness proof" never
\* fires.
C30_ResidualCheckUnreachable == Done => result.msg # MsgNonRelevantLeft

C30_Witness == Done /\ result.ok /\ Len(comp) = 2

====
